---- MODULE Spec2Model ----
(***************************************************************************)
(* Model of the two tools of the repository:                               *)
(*   scripts/agents_sync.py  plan/apply engine under a lock marker and a   *)
(*                           version-control safety gate                   *)
(*   scripts/agent_scan.py   index refresh and control-plane validation    *)
(*                                                                         *)
(* Specifications                                                          *)
(*   Spec      invocations of agents_sync.py one at a time, over a range   *)
(*             of trees, host documents and git states                     *)
(*   SpecLock  two invocations of agents_sync.py interleaved step by step  *)
(*   SpecScan  agent_scan.py runs, one after the other                     *)
(***************************************************************************)
EXTENDS Integers, Sequences, FiniteSets, TLC

(***************************************************************************)
(* Bounds of the model.                                                    *)
(***************************************************************************)
\* invocations started in one slot in one behaviour
MaxStarts == 1
\* the second-resolution clock runs over 0..MaxClock
MaxClock == 1
\* clock ticks per calendar day (a date is clock \div TicksPerDay)
TicksPerDay == 2

\* runs of agent_scan.py in one behaviour
MaxScans == 2

Procs == {"A", "B"}
Ts == 0..MaxClock

Range(s) == {s[i] : i \in DOMAIN s}

(***************************************************************************)
(* Paths and file contents.                                                *)
(* A text is a sequence of blocks; a block is a line or a group of lines   *)
(* of the file.  Every block has the same four fields.                     *)
(***************************************************************************)
GUIDE == "docs/GUIDE.md"
NOTES == "NOTES.md"
ROADMAP == "docs/ROADMAP.md"

DEFAULT_MANAGED ==
    << "docs/ROADMAP.md", "docs/ARCHITECTURE.md", "docs/AGENT_GUIDE.md",
       "docs/CONTRIBUTING_AGENTS.md", "docs/CHANGELOG_AGENTS.md" >>

\* the paths a modelled tree can hold a file or directory at
Paths == Range(DEFAULT_MANAGED) \cup {GUIDE, NOTES}

Blk(k, p, hs, d) == [k |-> k, p |-> p, hs |-> hs, d |-> d]

\* MANAGED_HEADER, the provenance marker line
MANAGED_HEADER == Blk("marker", "", {}, 0)
\* text written by a person, without level-2 headings
UserBlock == Blk("user", "", {}, 0)

Absent == [kind |-> "absent", text |-> <<>>]
Dir == [kind |-> "dir", text |-> <<>>]
File(t) == [kind |-> "file", text |-> t]

\* the limit on the number of hints; the heading vocabulary of the model
\* has fewer names, so the limit is never reached and the hints are a set
MaxHints == 12

HintsOf(corpus) ==
    LET \* the level-2 headings "## <name>" of a block
        HeadingsOfBlock(b) ==
            CASE b.k = "baseline" ->
                    {"Overview", "Decisions", "Tasks", "References",
                     "Changelog"}
              [] b.k = "preserved" -> {"Preserved Content"}
              [] b.k = "reuse" -> {"Candidate Sections (from previous docs)"}
              [] OTHER -> {}
        HeadingsOf(text) ==
            UNION {HeadingsOfBlock(text[i]) : i \in DOMAIN text}
        all == UNION {HeadingsOf(t) : t \in corpus}
    IN  IF Cardinality(all) <= MaxHints THEN all ELSE {}

\* re.sub of every marker line, then strip()
Preserved(text) == SelectSeq(text, LAMBDA b : b.k # "marker")

\* sha256_text: the hash of a string stands for the string (no collisions)
sha256_text(s) == s

\* synthesize_desired_content; hasText is "existing_text is not None".
\* A string compared by hash is its blocks and whether it ends with a
\* newline: preserved is strip()ped, baseline_sections ends with "\n".
synthesize_desired_content(rel, hasText, existing_text, corpus, day) ==
    LET \* "# <Title>" derived from the stem of the path, then the marker
        header == <<Blk("title", rel, {}, 0), MANAGED_HEADER>>
        hints == HintsOf(corpus)
        \* "## Candidate Sections (from previous docs)" and its bullets
        reuse_block == IF hints # {} THEN <<Blk("reuse", "", hints, 0)>>
                       ELSE <<>>
        \* the fixed section skeleton, with the date in its changelog line
        baseline_sections == [blocks |-> <<Blk("baseline", "", {}, day)>>,
                              nl |-> TRUE]
        preserved == [blocks |-> Preserved(existing_text), nl |-> FALSE]
        body ==
            IF hasText /\ existing_text # <<>>
            THEN IF preserved.blocks # <<>>
                    /\ sha256_text(preserved) # sha256_text(baseline_sections)
                 THEN reuse_block \o <<Blk("preserved", "", {}, 0)>>
                        \o preserved.blocks
                        \o baseline_sections.blocks
                 ELSE reuse_block \o baseline_sections.blocks
            ELSE reuse_block \o baseline_sections.blocks
    IN  header \o body

HasMarker(text) == \E i \in DOMAIN text : text[i] = MANAGED_HEADER


(***************************************************************************)
(* State.                                                                  *)
(***************************************************************************)
VARIABLES
    \* ---- agents_sync.py: the filesystem and its environment
    clock,          \* wall clock in seconds, read by now_ts()
    files,          \* the working tree: path -> Absent, Dir or File(text)
    hostManaged,    \* AGENTS.md: entries of the managed-artifacts block
    hostRemove,     \* AGENTS.md: entries of the agents.remove block
    dirs,           \* directories of the layout that exist
    gitignore,      \* .agents/.gitignore exists
    lock,           \* .agents/.lock
    lockTmp,        \* .agents/.lock.tmp
    context,        \* .agents/context/context_pack.json and src/
    backups,        \* .agents/backups/<ts>/<path>
    reports,        \* .agents/reports/<ts>.report.json
    dumps,          \* .agents/reports/<ts>.plan.json
    inRepo,         \* the directory is a git work tree
    dirty,          \* git status --porcelain is not empty
    curBranch,      \* git rev-parse --abbrev-ref HEAD
    branches,       \* branches created by git checkout -b
    \* ---- agents_sync.py: the invocations
    active,         \* the invocation slots in use
    runs,           \* invocations started so far
    started,        \* invocations started in each slot
    pc,             \* position of each invocation in main()
    args,           \* parsed command line
    runId,          \* ordinal of the invocation
    pre,            \* the filesystem when the invocation started
    holds,          \* the invocation passed acquire_lock()
    plan,           \* the Plan built by build_plan()
    idx,            \* apply_plan: index of the artifact being processed
    branch,         \* apply_plan: the local `branch`
    backup_manifest,
    change_manifest,
    outcome,        \* how the invocation ended
    \* ---- agent_scan.py: the filesystem
    codeDirs,       \* directories under the search roots that hold code
    srcDirs,        \* names n for which src/n exists in the working directory
    docsOnDisk,     \* VISION.md and OVERVIEW.md exist
    schemasOnDisk,  \* the three schema files exist
    indexFile,      \* .agents/index.json
    taskFiles,      \* the task files, by path
    priorities,     \* .agents/priorities.json
    \* ---- agent_scan.py: the runs
    scans,          \* runs started so far
    scanPc,         \* position of the run in main()
    scanArgs,       \* --refresh-index, --validate
    scanPre,        \* index and task files when the run started
    afterRefresh,   \* the run before this one was a refresh that exited 0
    scanOutcome,    \* how the run ended
    \* ---- atomic_write() and write_json(): one target path and its
    \* ".tmp" sibling, the processes writing it and a reader
    inodes,         \* the content of each file, by inode
    targetName,     \* the inode the target path names (0: no such file)
    tmpName,        \* the inode the ".tmp" path names (0: no such file)
    wPc,            \* position of each writer in its call
    wKind,          \* the function each writer is in
    wData,          \* the payload of each writer
    wFd,            \* the inode each writer has open (0: none)
    wOff,           \* chunks each writer has written through its handle
    wCalls,         \* calls each writer has made
    readerSaw,      \* what the reader read last
    \* ---- _validate(): one call
    vInstance,      \* the value
    vSchema,        \* the constraint
    vResult         \* "none" before the call, then "ok" or "error"

syncVars ==
    << clock, files, hostManaged, hostRemove, dirs, gitignore, lock, lockTmp,
       context, backups, reports, dumps, inRepo, dirty, curBranch, branches,
       active, runs, started, pc, args, runId, pre, holds, plan, idx, branch,
       backup_manifest, change_manifest, outcome >>

scanVars ==
    << codeDirs, srcDirs, docsOnDisk, schemasOnDisk, indexFile, taskFiles,
       priorities, scans, scanPc, scanArgs, scanPre, afterRefresh,
       scanOutcome >>

writeVars ==
    << inodes, targetName, tmpName, wPc, wKind, wData, wFd, wOff, wCalls,
       readerSaw >>

valVars == << vInstance, vSchema, vResult >>

\* what no step of agents_sync.py touches
otherVars == << scanVars, writeVars, valVars >>

vars == << syncVars, scanVars, writeVars, valVars >>

(***************************************************************************)
(* agents_sync.py: records and pure helpers.                               *)
(***************************************************************************)
LayoutDirs == {".agents", ".agents/context", ".agents/backups",
               ".agents/reports", ".agents/tmp"}

NoLock == [exists |-> FALSE, ts |-> 0, owner |-> ""]
LockMarker(t, p) == [exists |-> TRUE, ts |-> t, owner |-> p]

NoBranch == <<>>

NoPlan == [ts |-> 0, artifacts |-> <<>>, notes |-> <<>>]
NoArgs == [cmd |-> "", json |-> FALSE, allow_dirty |-> FALSE,
           auto_branch |-> FALSE, no_branch |-> FALSE]

ArgChoices ==
    [cmd : {"plan"}, json : BOOLEAN, allow_dirty : {FALSE},
     auto_branch : {FALSE}, no_branch : {FALSE}]
    \cup
    [cmd : {"apply"}, json : {FALSE}, allow_dirty : BOOLEAN,
     auto_branch : BOOLEAN, no_branch : BOOLEAN]

\* exit status of the process for each way an invocation ends
ExitCode(o) ==
    CASE o = "ok" -> 0
      [] o = "lock_main" -> 1
      [] o = "error" -> 1
      [] o = "git" -> 2
      [] o = "lock_acquire" -> 3
      [] OTHER -> -1

RECURSIVE Unique(_, _)
\* keeps the first occurrence of every entry, in order
Unique(s, seen) ==
    IF s = <<>> THEN <<>>
    ELSE IF Head(s) \in seen THEN Unique(Tail(s), seen)
         ELSE <<Head(s)>> \o Unique(Tail(s), seen \cup {Head(s)})

parse_managed_from_agents_md(decl) == Unique(decl, {})

\* the documents read by gather_existing_generated_docs
Harvested(managed_paths, fs) ==
    \* the managed paths, and the paths matched by docs/**/*.md
    {rel \in Range(managed_paths) \cup (Paths \ {NOTES}) :
        fs[rel].kind = "file"}

\* a planner that keeps what it cannot read as a text file
ManagedArtifactKeepsUnreadable(rel, fs, corpus, day) ==
    LET exists == fs[rel].kind # "absent"
        isFile == fs[rel].kind = "file"
        current_text == fs[rel].text
        desired == synthesize_desired_content(rel, isFile, current_text,
                                              corpus, day)
        decision ==
            IF ~exists THEN "create"
            ELSE IF ~isFile THEN "keep"
            ELSE IF sha256_text(current_text) # sha256_text(desired)
                 THEN "modify"
                 ELSE "keep"
    IN  [path |-> rel, exists |-> exists,
         managed |-> isFile /\ HasMarker(current_text),
         current |-> fs[rel], suggested |-> desired, decision |-> decision]

\* the planning of one managed path (the body of the first loop)
ManagedArtifact(rel, fs, corpus, day) ==
    LET exists == fs[rel].kind # "absent"
        isFile == fs[rel].kind = "file"
        current_text == fs[rel].text
        desired == synthesize_desired_content(rel, isFile, current_text,
                                              corpus, day)
        decision ==
            IF ~exists THEN "create"
            ELSE IF ~isFile THEN "modify"
            ELSE IF sha256_text(current_text) # sha256_text(desired)
                 THEN "modify"
                 ELSE "keep"
    IN  [path |-> rel, exists |-> exists,
         managed |-> isFile /\ HasMarker(current_text),
         current |-> fs[rel], suggested |-> desired, decision |-> decision]

\* the artifact of one entry of the removal directive
RemoveArtifact(rel, fs) ==
    [path |-> rel, exists |-> TRUE, managed |-> FALSE, current |-> fs[rel],
     suggested |-> <<>>, decision |-> "remove"]

\* the two loops of build_plan over the managed paths and over the
\* removal candidates
PlanLoops(managed_paths, removal, fs, day) ==
    LET corpus == {fs[rel].text : rel \in Harvested(managed_paths, fs)}
        first == [i \in DOMAIN managed_paths |->
                    ManagedArtifact(managed_paths[i], fs, corpus, day)]
        cands == SelectSeq(removal, LAMBDA rel : fs[rel].kind = "file")
        second == [i \in DOMAIN cands |-> RemoveArtifact(cands[i], fs)]
    IN  first \o second

\* the managed paths in effect: the declaration, or the defaults
EffectiveManaged(decl) ==
    IF parse_managed_from_agents_md(decl) = <<>>
    THEN DEFAULT_MANAGED
    ELSE parse_managed_from_agents_md(decl)

\* a planner that also removes every file it does not manage
PlanArtifactsRemovesStale(decl, removal, fs, day) ==
    PlanLoops(EffectiveManaged(decl),
              removal \o SelectSeq(DEFAULT_MANAGED \o <<GUIDE, NOTES>>,
                    LAMBDA q : q \notin Range(EffectiveManaged(decl))),
              fs, day)

\* build_plan without its writes: the artifacts, managed paths first
PlanArtifacts(decl, removal, fs, day) ==
    PlanLoops(EffectiveManaged(decl), removal, fs, day)

\* assert_git_safety: "none" (not a repository), "abort", "branch" (a new
\* branch is to be created) or "current"
GitSafety(repo, isDirty, allow_dirty, auto_branch) ==
    IF ~repo THEN "none"
    ELSE IF isDirty /\ ~allow_dirty
         THEN IF auto_branch THEN "branch" ELSE "abort"
         ELSE IF ~isDirty /\ auto_branch THEN "branch" ELSE "current"

Snapshot ==
    [files |-> files, dirs |-> dirs, gitignore |-> gitignore,
     lock |-> lock, context |-> context, backups |-> backups,
     reports |-> reports, dumps |-> dumps]


(***************************************************************************)
(* agents_sync.py: initial states.                                         *)
(***************************************************************************)
\* a document as a previous apply leaves it on an empty tree
FreshDoc(rel) == synthesize_desired_content(rel, FALSE, <<>>, {}, 0)

\* docs/GUIDE.md missing, written by a previous apply, or a directory, next
\* to a NOTES.md a user wrote; and a tree where both are missing
InitTrees ==
    {[q \in Paths |->
        CASE q = GUIDE -> t[1]
          [] q = NOTES -> t[2]
          [] q = ROADMAP -> File(<<UserBlock>>)
          [] OTHER -> Absent] :
        t \in ({Absent, File(FreshDoc(GUIDE)), Dir} \X {File(<<UserBlock>>)})
                  \cup {<<Absent, Absent>>}}

\* AGENTS.md as <<managed entries, removal entries>>: nothing declared, a
\* declaration (with a repeated entry), and a declaration with a removal
\* directive that names a declared path
InitHosts ==
    { << <<>>, <<>> >>,
      << <<GUIDE, NOTES, GUIDE>>, <<>> >>,
      << <<GUIDE, NOTES, GUIDE>>, <<NOTES>> >> }

\* the control directory and the work tree before the first run, as
\* <<dirs, gitignore, lock, inRepo, dirty>>: a directory without git and
\* without .agents, a clean and a dirty work tree with a complete layout,
\* and a lock marker left behind with or without the rest of the layout
InitEnvs ==
    { <<{}, FALSE, NoLock, FALSE, FALSE>>,
      <<LayoutDirs, TRUE, NoLock, TRUE, FALSE>>,
      <<LayoutDirs, TRUE, NoLock, TRUE, TRUE>>,
      <<LayoutDirs, TRUE, LockMarker(0, "stale"), TRUE, FALSE>>,
      <<{".agents"}, FALSE, LockMarker(0, "stale"), FALSE, FALSE>> }

\* for two invocations: no .agents yet, outside and inside a work tree
InitLockEnvs ==
    { <<{}, FALSE, NoLock, FALSE, FALSE>>,
      <<{}, FALSE, NoLock, TRUE, FALSE>> }

(***************************************************************************)
(* agent_scan.py: records and pure helpers.                                *)
(***************************************************************************)
Names == {"bar", "core", "foo"}

\* candidate.name: two search roots hold a directory named foo
DirName(d) == CASE d = "app/foo" -> "foo"
                [] d = "src/foo" -> "foo"
                [] OTHER -> "core"

\* f".agents/modules/{name}/tasks.json"
TasksFileOf(n) == CASE n = "bar" -> ".agents/modules/bar/tasks.json"
                    [] n = "foo" -> ".agents/modules/foo/tasks.json"
                    [] OTHER -> ".agents/modules/core/tasks.json"

TaskPaths == {TasksFileOf(n) : n \in Names}

\* the strings a sort key can hold, in code point order
PathOrder == << ".agents/modules/bar", ".agents/modules/core",
                ".agents/modules/foo", "app/foo", "lib/foo", "src/bar",
                "src/core", "src/foo" >>
NameOrder == << "bar", "core", "foo" >>

Rank(order, x) == CHOOSE i \in DOMAIN order : order[i] = x

Module(n, path, tf) == [name |-> n, path |-> path, tasks_file |-> tf]

\* sorted(..., key=lambda item: (item["path"], item["name"]))
RECURSIVE SortModules(_)
SortModules(S) ==
    IF S = {} THEN <<>>
    ELSE LET KeyLess(a, b) ==
                 \/ Rank(PathOrder, a.path) < Rank(PathOrder, b.path)
                 \/ /\ a.path = b.path
                    /\ Rank(NameOrder, a.name) < Rank(NameOrder, b.name)
             m == CHOOSE x \in S : \A y \in S \ {x} : KeyLess(x, y)
         IN  <<m>> \o SortModules(S \ {m})

NoIndex == [kind |-> "absent", generated_at |-> 0, modules |-> <<>>,
            docs |-> "none"]
Index(t, mods, docs) ==
    [kind |-> "ok", generated_at |-> t, modules |-> mods, docs |-> docs]

NoTaskFile == [kind |-> "absent", module |-> "", updated_at |-> 0,
               tasks |-> <<>>]
TaskFile(n, t, ids) ==
    [kind |-> "ok", module |-> n, updated_at |-> t, tasks |-> ids]

NoPriorities == [kind |-> "absent", queue |-> <<>>]
Priorities(q) == [kind |-> "ok", queue |-> q]

\* the payload is a function of the object, and an equal payload is left
\* alone
write_json(cur, obj) == IF cur.kind = "ok" /\ cur = obj THEN cur ELSE obj

\* a discovery without the synthetic module
discover_modules_no_fallback(code) ==
    SortModules({Module(DirName(d), d, TasksFileOf(DirName(d))) : d \in code})

discover_modules(code) ==
    LET modules == {Module(DirName(d), d, TasksFileOf(DirName(d))) :
                       d \in code}
    IN  IF modules = {}
        THEN << Module("core", "src/core", TasksFileOf("core")) >>
        ELSE SortModules(modules)

\* an index built from the two discovery passes only
build_index_forgets_existing(existing, code, srcs, tfs, now) ==
    LET \* a dict built from a list: the last entry of a name wins
        ByName(seq) ==
            {seq[i] : i \in {j \in DOMAIN seq :
                                \A k \in DOMAIN seq :
                                    seq[k].name = seq[j].name => k <= j}}
        \* the entries of the existing index whose name is still unknown,
        \* the first of a name only
        Retained(mods, known) ==
            {mods[i] : i \in {j \in DOMAIN mods :
                                 /\ mods[j].name # ""
                                 /\ mods[j].name \notin known
                                 /\ \A k \in DOMAIN mods :
                                       mods[k].name = mods[j].name
                                          => j <= k}}
        \* tasks_file.parent relative to the root
        ModuleDirOf(n) == CASE n = "bar" -> ".agents/modules/bar"
                            [] n = "foo" -> ".agents/modules/foo"
                            [] OTHER -> ".agents/modules/core"
        \* Path("src") / module_name
        SrcPathOf(n) == CASE n = "bar" -> "src/bar"
                          [] n = "foo" -> "src/foo"
                          [] OTHER -> "src/core"
        found == ByName(discover_modules(code))
        foundNames == {m.name : m \in found}
        derived == {Module(n, IF n \in srcs THEN SrcPathOf(n)
                                            ELSE ModuleDirOf(n),
                           TasksFileOf(n)) :
                       n \in {x \in Names \ foundNames :
                                 tfs[TasksFileOf(x)].kind # "absent"}}
        discovered == found \cup derived
        kept == {}
        modules == SortModules(discovered \cup kept)
        generated_at ==
            IF /\ existing.kind = "ok"
               /\ existing.modules = modules
               /\ existing.docs = "std"
            THEN existing.generated_at
            ELSE now
    IN  Index(generated_at, modules, "std")

\* build_index(existing): the three passes, the sort and generated_at
build_index(existing, code, srcs, tfs, now) ==
    LET \* a dict built from a list: the last entry of a name wins
        ByName(seq) ==
            {seq[i] : i \in {j \in DOMAIN seq :
                                \A k \in DOMAIN seq :
                                    seq[k].name = seq[j].name => k <= j}}
        \* the entries of the existing index whose name is still unknown,
        \* the first of a name only
        Retained(mods, known) ==
            {mods[i] : i \in {j \in DOMAIN mods :
                                 /\ mods[j].name # ""
                                 /\ mods[j].name \notin known
                                 /\ \A k \in DOMAIN mods :
                                       mods[k].name = mods[j].name
                                          => j <= k}}
        \* tasks_file.parent relative to the root
        ModuleDirOf(n) == CASE n = "bar" -> ".agents/modules/bar"
                            [] n = "foo" -> ".agents/modules/foo"
                            [] OTHER -> ".agents/modules/core"
        \* Path("src") / module_name
        SrcPathOf(n) == CASE n = "bar" -> "src/bar"
                          [] n = "foo" -> "src/foo"
                          [] OTHER -> "src/core"
        found == ByName(discover_modules(code))
        foundNames == {m.name : m \in found}
        derived == {Module(n, IF n \in srcs THEN SrcPathOf(n)
                                            ELSE ModuleDirOf(n),
                           TasksFileOf(n)) :
                       n \in {x \in Names \ foundNames :
                                 tfs[TasksFileOf(x)].kind # "absent"}}
        discovered == found \cup derived
        kept == IF existing.kind = "ok"
                THEN Retained(existing.modules,
                              {m.name : m \in discovered})
                ELSE {}
        modules == SortModules(discovered \cup kept)
        generated_at ==
            IF /\ existing.kind = "ok"
               /\ existing.modules = modules
               /\ existing.docs = "std"
            THEN existing.generated_at
            ELSE now
    IN  Index(generated_at, modules, "std")

RECURSIVE ensure_task_files(_, _, _)
ensure_task_files(modules, tfs, now) ==
    IF modules = <<>> THEN tfs
    ELSE LET module == Head(modules)
             tf == module.tasks_file
         IN  ensure_task_files(
                 Tail(modules),
                 IF tfs[tf].kind # "absent" THEN tfs
                 ELSE [tfs EXCEPT ![tf] = TaskFile(module.name, now, <<>>)],
                 now)

\* task_catalog after the loop over the modules of the index: a later
\* module overrides an earlier one
Catalog(index, tfs) ==
    [id \in UNION {Range(tfs[index.modules[i].tasks_file].tasks) :
                      i \in DOMAIN index.modules} |->
        LET last == CHOOSE i \in DOMAIN index.modules :
                       /\ id \in Range(tfs[index.modules[i].tasks_file].tasks)
                       /\ \A k \in DOMAIN index.modules :
                             id \in Range(tfs[index.modules[k].tasks_file].tasks)
                                => k <= i
        IN  index.modules[last].tasks_file]

\* TRUE when validate_all() returns, FALSE when it dies
validate_all(index, tfs, docs, prio) ==
    /\ index.kind = "ok"
    /\ \A i \in DOMAIN index.modules :
          LET payload == tfs[index.modules[i].tasks_file]
          IN  /\ payload.kind = "ok"
              /\ payload.module = index.modules[i].name
              /\ \A k \in DOMAIN payload.tasks : payload.tasks[k] # ""
    /\ index.docs = "std" => docs
    /\ prio.kind = "ok"
    /\ \A k \in DOMAIN prio.queue :
          LET entry == prio.queue[k]
          IN  /\ entry.task_id # "" =>
                    entry.task_id \in DOMAIN Catalog(index, tfs)
              /\ (entry.file # "" /\ entry.task_id # "") =>
                    entry.file = Catalog(index, tfs)[entry.task_id]


(***************************************************************************)
(* agent_scan.py: the repository before the first run.                     *)
(***************************************************************************)
\* an index a maintainer wrote: a module whose code is outside the search
\* roots, and one whose task file is kept under another module's directory
InitIndexes ==
    { NoIndex, [NoIndex EXCEPT !.kind = "malformed"],
      Index(0, << Module("foo", "lib/foo", TasksFileOf("foo")) >>, "std"),
      Index(0, << Module("foo", "lib/foo", TasksFileOf("bar")) >>, "std") }

InitTaskFiles ==
    {[q \in TaskPaths |->
        CASE q = TasksFileOf("foo") -> f
          [] q = TasksFileOf("bar") -> b
          [] OTHER -> NoTaskFile] :
        f \in {NoTaskFile, TaskFile("foo", 0, <<"T1">>),
               TaskFile("bar", 0, <<"T1">>)},
        b \in {NoTaskFile, TaskFile("bar", 0, <<"T1">>)}}

InitPriorities ==
    { NoPriorities, Priorities(<<>>),
      Priorities(<< [task_id |-> "T1", file |-> TasksFileOf("foo")] >>),
      \* an entry with an empty task_id and a file reference
      Priorities(<< [task_id |-> "", file |-> TasksFileOf("bar")] >>) }

InitCodeDirs == { {}, {"src/foo"}, {"app/foo", "src/foo"} }

ScanIdle ==
    /\ scans = 0
    /\ scanPc = "idle"
    /\ scanArgs = [refresh_index |-> FALSE, validate |-> FALSE]
    /\ scanPre = [index |-> indexFile, tasks |-> taskFiles]
    /\ afterRefresh = FALSE
    /\ scanOutcome = "none"

\* no control plane yet
InitNoScan ==
    /\ codeDirs = {}
    /\ srcDirs = {}
    /\ docsOnDisk = FALSE
    /\ schemasOnDisk = FALSE
    /\ indexFile = NoIndex
    /\ taskFiles = [q \in TaskPaths |-> NoTaskFile]
    /\ priorities = NoPriorities
    /\ ScanIdle

(***************************************************************************)
(* agent_scan.py: JSON values, schemas and the structural validator.       *)
(***************************************************************************)
\* a JSON value as Python holds it; True and False carry 1 and 0, the
\* numbers Python compares them equal to; an object is its items in order
JValue(kind, n, s, items, fields) ==
    [kind |-> kind, n |-> n, s |-> s, items |-> items, fields |-> fields]
JNull == JValue("null", 0, "", <<>>, <<>>)
JBool(b) == JValue("boolean", IF b THEN 1 ELSE 0, "", <<>>, <<>>)
JInt(n) == JValue("integer", n, "", <<>>, <<>>)
JStr(s) == JValue("string", 0, s, <<>>, <<>>)
JArr(items) == JValue("array", 0, "", items, <<>>)
JObj(fields) == JValue("object", 0, "", <<>>, fields)
Item(k, v) == [k |-> k, v |-> v]

Keys(fields) == {fields[i].k : i \in DOMAIN fields}
Lookup(fields, key) ==
    fields[CHOOSE i \in DOMAIN fields : fields[i].k = key].v

\* isinstance(value, int): bool is a subclass of int
IsInt(v) == v.kind \in {"integer", "boolean"}
IsBool(v) == v.kind = "boolean"
IsFloat(v) == v.kind = "float"

\* Python's ==, as `in` applies it
RECURSIVE PyEq(_, _)
PyEq(a, b) ==
    IF (IsInt(a) \/ IsFloat(a)) /\ (IsInt(b) \/ IsFloat(b)) THEN a.n = b.n
    ELSE IF a.kind # b.kind THEN FALSE
    ELSE IF a.kind = "array"
         THEN /\ Len(a.items) = Len(b.items)
              /\ \A i \in DOMAIN a.items : PyEq(a.items[i], b.items[i])
    ELSE IF a.kind = "object"
         THEN /\ Keys(a.fields) = Keys(b.fields)
              /\ \A k \in Keys(a.fields) :
                    PyEq(Lookup(a.fields, k), Lookup(b.fields, k))
    ELSE a.s = b.s

\* a schema: type is the candidate kinds (none when the key is absent),
\* typeIsList tells a list from a single string; additional is "absent",
\* "true", "false" or "schema"; items is "absent", "schema" or "list"; the
\* nested schemas are held in sequences
AnySchema ==
    [type |-> <<>>, typeIsList |-> FALSE, required |-> <<>>,
     properties |-> <<>>, additional |-> "absent", addSchema |-> <<>>,
     items |-> "absent", itemSchemas |-> <<>>, hasMinimum |-> FALSE,
     minimum |-> 0, hasEnum |-> FALSE, enum |-> <<>>]
TypeSchema(t) == [AnySchema EXCEPT !.type = <<t>>]
TypeListSchema(ts) == [AnySchema EXCEPT !.type = ts, !.typeIsList = TRUE]
ObjectSchema(required, properties, additional, addSchema) ==
    [TypeSchema("object") EXCEPT !.required = required,
                                 !.properties = properties,
                                 !.additional = additional,
                                 !.addSchema = addSchema]

\* _check_type(value, expected): TRUE when it returns, FALSE when it raises
_check_type(value, expected) ==
    /\ expected = "object" => value.kind = "object"
    /\ expected = "array" => value.kind = "array"
    /\ expected = "string" => value.kind = "string"
    /\ expected = "integer" => (IsInt(value) /\ ~IsBool(value))
    /\ expected = "number" => (IsInt(value) \/ IsFloat(value))
    /\ expected = "boolean" => IsBool(value)
    /\ expected = "null" => value.kind = "null"

\* the effective type: the single type, or the first candidate of a list
\* that accepts the value; "" when there is none
EffectiveType(instance, schema) ==
    LET accepting == {i \in DOMAIN schema.type :
                         _check_type(instance, schema.type[i])}
    IN  IF schema.type = <<>> \/ accepting = {} THEN ""
        ELSE schema.type[CHOOSE i \in accepting :
                             \A j \in accepting : i <= j]

RECURSIVE _validate(_, _)

\* a validator that lets every undeclared property through
UndeclaredOkIgnoresPolicy(value, schema) == TRUE

\* _validate, a property name that is not in `properties`: TRUE when the
\* loop goes on, FALSE when it raises
UndeclaredOk(value, schema) ==
    CASE schema.additional = "schema" ->
             _validate(value, schema.addSchema[1])
      [] schema.additional = "false" -> FALSE
      [] OTHER -> TRUE

\* _validate(instance, schema): TRUE when it returns, FALSE when it raises
_validate(instance, schema) ==
    LET effective_type == EffectiveType(instance, schema)
    IN  /\ schema.type = <<>> \/ effective_type # ""
        /\ effective_type = "object" =>
              /\ \A i \in DOMAIN schema.required :
                    schema.required[i] \in Keys(instance.fields)
              /\ \A i \in DOMAIN instance.fields :
                    IF instance.fields[i].k \in Keys(schema.properties)
                    THEN _validate(instance.fields[i].v,
                                   Lookup(schema.properties,
                                          instance.fields[i].k))
                    ELSE UndeclaredOk(instance.fields[i].v, schema)
        /\ effective_type = "array" =>
              CASE schema.items = "schema" ->
                       \A i \in DOMAIN instance.items :
                           _validate(instance.items[i],
                                     schema.itemSchemas[1])
                [] schema.items = "list" ->
                       /\ Len(instance.items) = Len(schema.itemSchemas)
                       /\ \A i \in DOMAIN schema.itemSchemas :
                             _validate(instance.items[i],
                                       schema.itemSchemas[i])
                [] OTHER -> TRUE
        /\ schema.hasMinimum =>
              ~((IsInt(instance) \/ IsFloat(instance))
                /\ instance.n < schema.minimum)
        /\ schema.hasEnum =>
              \E i \in DOMAIN schema.enum : PyEq(instance, schema.enum[i])

\* the values and the schemas a call is made with
Instances ==
    { JNull, JBool(TRUE), JBool(FALSE), JInt(0), JInt(1), JInt(3),
      JValue("float", 1, "", <<>>, <<>>),
      JStr("a"), JArr(<<>>), JArr(<< JInt(1), JBool(TRUE) >>),
      JObj(<<>>),
      JObj(<< Item("a", JInt(1)) >>),
      JObj(<< Item("a", JBool(TRUE)) >>),
      JObj(<< Item("x", JInt(1)) >>),
      JObj(<< Item("a", JInt(1)), Item("x", JBool(TRUE)) >>),
      JObj(<< Item("a", JInt(1)), Item("x", JStr("a")) >>),
      JObj(<< Item("a", JStr("a")), Item("x", JInt(3)) >>),
      JObj(<< Item("x", JObj(<< Item("y", JBool(TRUE)) >>)) >>) }

Declared == << Item("a", TypeSchema("integer")) >>

Schemas ==
    { AnySchema,
      TypeSchema("integer"), TypeSchema("number"), TypeSchema("boolean"),
      TypeSchema("string"), TypeSchema("null"), TypeSchema("array"),
      TypeSchema("object"),
      TypeListSchema(<< "integer", "null" >>),
      TypeListSchema(<< "string", "number" >>),
      TypeListSchema(<< "boolean", "integer" >>),
      TypeListSchema(<< "null", "object" >>),
      [AnySchema EXCEPT !.hasMinimum = TRUE, !.minimum = 1],
      [AnySchema EXCEPT !.hasEnum = TRUE, !.enum = << JInt(1), JStr("a") >>],
      [TypeSchema("array") EXCEPT !.items = "schema",
                                  !.itemSchemas = << TypeSchema("integer") >>],
      [TypeSchema("array") EXCEPT !.items = "list",
                                  !.itemSchemas = << TypeSchema("integer"),
                                                     TypeSchema("boolean") >>],
      ObjectSchema(<<>>, Declared, "absent", <<>>),
      ObjectSchema(<< "a" >>, Declared, "true", <<>>),
      ObjectSchema(<<>>, Declared, "false", <<>>),
      ObjectSchema(<<>>, <<>>, "false", <<>>),
      ObjectSchema(<<>>, Declared, "schema", << TypeSchema("integer") >>),
      ObjectSchema(<<>>, Declared, "schema", << TypeSchema("boolean") >>),
      ObjectSchema(<<>>, <<>>, "schema",
                   << ObjectSchema(<<>>, <<>>, "false", <<>>) >>),
      [AnySchema EXCEPT !.properties = Declared, !.additional = "false"],
      [TypeListSchema(<< "null", "object" >>)
           EXCEPT !.properties = Declared, !.additional = "false"] }

\* no call of _validate
InitNoVal ==
    /\ vInstance = JNull
    /\ vSchema = AnySchema
    /\ vResult = "none"

(***************************************************************************)
(* atomic_write() and write_json(): contents.                              *)
(***************************************************************************)
\* writes of the payload that reach the file, at most
MaxChunks == 2

\* write calls of one process
MaxWrites == 1

\* the k-th part of a payload, and a stretch never written
Chunk(name, k) == [of |-> name, k |-> k]
Hole == Chunk("hole", 0)
Payload(name) == [k \in 1..MaxChunks |-> Chunk(name, k)]

\* the payloads of the writers, and what the target holds at first
NewPayloads == {"new1", "new2"}
Complete == {Payload(name) : name \in NewPayloads \cup {"old"}}

\* what a handle at offset k - 1 leaves in the file when it writes chunk c
WriteAt(content, k, c) ==
    [i \in 1..(IF Len(content) > k THEN Len(content) ELSE k) |->
        IF i = k THEN c
        ELSE IF i <= Len(content) THEN content[i] ELSE Hole]

Inodes == 1..(1 + Cardinality(Procs) * MaxWrites)

NotRead == << Chunk("unread", 0) >>

\* no call of atomic_write or write_json
WritersIdle ==
    /\ tmpName = 0
    /\ wPc = [w \in Procs |-> "idle"]
    /\ wKind = [w \in Procs |-> ""]
    /\ wData = [w \in Procs |-> ""]
    /\ wFd = [w \in Procs |-> 0]
    /\ wOff = [w \in Procs |-> 0]
    /\ wCalls = [w \in Procs |-> 0]
    /\ readerSaw = NotRead

InitNoWrite ==
    /\ inodes = [i \in Inodes |-> <<>>]
    /\ targetName = 0
    /\ WritersIdle

InitProcs ==
    /\ runs = 0
    /\ started = [p \in Procs |-> 0]
    /\ pc = [p \in Procs |-> "idle"]
    /\ args = [p \in Procs |-> NoArgs]
    /\ runId = [p \in Procs |-> 0]
    /\ pre = [p \in Procs |-> Snapshot]
    /\ holds = [p \in Procs |-> FALSE]
    /\ plan = [p \in Procs |-> NoPlan]
    /\ idx = [p \in Procs |-> 1]
    /\ branch = [p \in Procs |-> NoBranch]
    /\ backup_manifest = [p \in Procs |-> <<>>]
    /\ change_manifest = [p \in Procs |-> <<>>]
    /\ outcome = [p \in Procs |-> "none"]

InitFs(trees, hosts, envs) ==
    /\ clock = 0
    /\ files \in trees
    /\ \E h \in hosts : hostManaged = h[1] /\ hostRemove = h[2]
    /\ \E e \in envs :
          /\ dirs = e[1] /\ gitignore = e[2] /\ lock = e[3]
          /\ inRepo = e[4] /\ dirty = e[5]
    /\ lockTmp = NoLock
    /\ context = [exists |-> FALSE, ts |-> 0, sources |-> {}]
    /\ backups = [t \in Ts |-> [q \in Paths |-> Absent]]
    /\ reports = [t \in Ts |->
                     [exists |-> FALSE, run |-> 0, branch |-> NoBranch,
                      changes |-> <<>>, backups |-> <<>>, notes |-> <<>>]]
    /\ dumps = {}
    /\ curBranch = IF inRepo THEN <<"main">> ELSE NoBranch
    /\ branches = {}

Init ==
    /\ InitFs(InitTrees, InitHosts, InitEnvs)
    /\ active = {"A"}
    /\ InitProcs
    /\ InitNoScan
    /\ InitNoWrite
    /\ InitNoVal

\* two invocations side by side on one small tree
InitLock ==
    /\ InitFs({[q \in Paths |-> Absent]}, { << <<GUIDE>>, <<>> >> },
              InitLockEnvs)
    /\ active = Procs
    /\ InitProcs
    /\ InitNoScan
    /\ InitNoWrite
    /\ InitNoVal

(***************************************************************************)
(* agents_sync.py: the steps of main().                                    *)
(***************************************************************************)
fsVars == << files, dirs, gitignore, lock, lockTmp, context, backups,
             reports, dumps >>
gitVars == << inRepo, dirty, curBranch, branches >>
hostVars == << hostManaged, hostRemove >>
localVars == << started, args, runId, pre, holds, plan, idx, branch,
                backup_manifest, change_manifest, outcome >>

Goto(p, l) == pc' = [pc EXCEPT ![p] = l]
Ends(p, o) == outcome' = [outcome EXCEPT ![p] = o]

\* the parse of the command line, at the start of a process; choices is the
\* set of command lines the step draws from, snap the record of the
\* filesystem kept for the invocation
StartWith(p, choices, snap) ==
    /\ p \in active
    /\ UNCHANGED otherVars
    /\ pc[p] \in {"idle", "done", "crashed"}
    /\ started[p] < MaxStarts
    /\ started' = [started EXCEPT ![p] = @ + 1]
    /\ runs' = runs + 1
    /\ \E a \in choices : args' = [args EXCEPT ![p] = a]
    /\ runId' = [runId EXCEPT ![p] = runs + 1]
    /\ pre' = [pre EXCEPT ![p] = snap]
    /\ holds' = [holds EXCEPT ![p] = FALSE]
    /\ plan' = [plan EXCEPT ![p] = NoPlan]
    /\ idx' = [idx EXCEPT ![p] = 1]
    /\ branch' = [branch EXCEPT ![p] = NoBranch]
    /\ backup_manifest' = [backup_manifest EXCEPT ![p] = <<>>]
    /\ change_manifest' = [change_manifest EXCEPT ![p] = <<>>]
    /\ Ends(p, "running")
    /\ Goto(p, "layout")
    /\ UNCHANGED << clock, fsVars, gitVars, hostVars, active >>

Start(p) == StartWith(p, ArgChoices, Snapshot)

\* the command lines of the two-invocation specification: plan, and apply
\* without flags
\* (no record of the filesystem is kept there); each of the two processes
\* is one invocation
StartLock(p) ==
    /\ started[p] = 0
    /\ StartWith(p, {a \in ArgChoices : ~a.json /\ ~a.allow_dirty
                                      /\ ~a.auto_branch /\ ~a.no_branch},
              pre[p])

\* ensure_layout(): the directories, and .gitignore when it is missing
\* (a new untracked file in a work tree)
ensure_layout ==
    /\ dirs' = dirs \cup LayoutDirs
    /\ gitignore' = TRUE
    /\ dirty' = (dirty \/ (inRepo /\ ~gitignore))

\* main(): ensure_layout() before the lock is looked at
Layout(p) ==
    /\ pc[p] = "layout"
    /\ UNCHANGED otherVars
    /\ ensure_layout
    /\ Goto(p, "check")
    /\ UNCHANGED << clock, files, lock, lockTmp, context, backups, reports,
                    dumps, inRepo, curBranch, branches, hostVars, active,
                    runs, localVars >>

\* a lock test made inside the try block: the exit passes release_lock()
CheckLockedInsideTry(p) ==
    /\ pc[p] = "check"
    /\ UNCHANGED otherVars
    /\ IF lock.exists
       THEN Ends(p, "lock_main") /\ Goto(p, "release")
       ELSE Goto(p, "acquire") /\ UNCHANGED outcome
    /\ UNCHANGED << clock, fsVars, gitVars, hostVars, active, runs, started, args,
                    runId, pre, holds, plan, idx, branch, backup_manifest,
                    change_manifest >>

\* main(): if locked(): sys.exit(1)
CheckLocked(p) ==
    /\ pc[p] = "check"
    /\ UNCHANGED otherVars
    /\ IF lock.exists
       THEN Ends(p, "lock_main") /\ Goto(p, "done")
       ELSE Goto(p, "acquire") /\ UNCHANGED outcome
    /\ UNCHANGED << clock, fsVars, gitVars, hostVars, active, runs, started, args,
                    runId, pre, holds, plan, idx, branch, backup_manifest,
                    change_manifest >>

\* acquire_lock(): if locked(): sys.exit(3)
AcquireCheck(p) ==
    /\ pc[p] = "acquire"
    /\ UNCHANGED otherVars
    /\ IF lock.exists
       THEN Ends(p, "lock_acquire") /\ Goto(p, "done")
       ELSE Goto(p, "lock_tmp") /\ UNCHANGED outcome
    /\ UNCHANGED << clock, fsVars, gitVars, hostVars, active, runs, started, args,
                    runId, pre, holds, plan, idx, branch, backup_manifest,
                    change_manifest >>

\* acquire_lock(): atomic_write, the write of .lock.tmp
AcquireWriteTmp(p) ==
    /\ pc[p] = "lock_tmp"
    /\ UNCHANGED otherVars
    /\ lockTmp' = LockMarker(clock, p)
    /\ Goto(p, "lock_mv")
    /\ UNCHANGED << clock, files, dirs, gitignore, lock, context, backups,
                    reports, dumps, gitVars, hostVars, active, runs,
                    localVars >>

\* acquire_lock(): atomic_write, os.replace(.lock.tmp, .lock); it raises
\* outside the try block when the temporary file is gone
AcquireReplace(p) ==
    /\ pc[p] = "lock_mv"
    /\ UNCHANGED otherVars
    /\ IF lockTmp.exists
       THEN /\ lock' = lockTmp
            /\ lockTmp' = NoLock
            /\ holds' = [holds EXCEPT ![p] = TRUE]
            /\ Goto(p, "plan")
            /\ UNCHANGED outcome
       ELSE /\ Ends(p, "error")
            /\ Goto(p, "done")
            /\ UNCHANGED << lock, lockTmp, holds >>
    /\ UNCHANGED << clock, files, dirs, gitignore, context, backups, reports,
                    dumps, gitVars, hostVars, active, runs, started, args, runId, pre,
                    plan, idx, branch, backup_manifest, change_manifest >>

\* build_plan(): layout, context pack, artifacts; or an error raised while
\* AGENTS.md or a document is read
BuildPlan(p) ==
    /\ pc[p] = "plan"
    /\ UNCHANGED otherVars
    /\ \/ /\ ensure_layout
          /\ context' = [exists |-> TRUE, ts |-> clock,
                         sources |-> Harvested(EffectiveManaged(hostManaged),
                                               files)]
          /\ plan' = [plan EXCEPT ![p] =
                [ts |-> clock,
                 artifacts |-> PlanArtifacts(hostManaged, hostRemove, files,
                                             clock \div TicksPerDay),
                 notes |-> IF parse_managed_from_agents_md(hostManaged) = <<>>
                           THEN <<"defaults">> ELSE <<>>]]
          /\ Goto(p, "planned")
          /\ UNCHANGED outcome
       \/ /\ Ends(p, "error")
          /\ Goto(p, "release")
          /\ UNCHANGED << dirs, gitignore, dirty, context, plan >>
    /\ UNCHANGED << clock, files, lock, lockTmp, backups, reports, dumps,
                    inRepo, curBranch, branches, hostVars, active, runs, started,
                    args, runId, pre, holds, idx, branch, backup_manifest,
                    change_manifest >>

\* a plan command that goes on to apply what it planned
PlanCmdApplies(p) ==
    /\ pc[p] = "planned"
    /\ UNCHANGED otherVars
    /\ args[p].cmd = "plan"
    /\ dumps' = IF args[p].json THEN dumps \cup {plan[p].ts} ELSE dumps
    /\ Goto(p, "loop")
    /\ UNCHANGED << clock, files, dirs, gitignore, lock, lockTmp, context,
                    backups, reports, gitVars, hostVars, active, runs,
                    localVars >>

\* main(), cmd == "plan": print_plan and the optional plan JSON
PlanCmd(p) ==
    /\ pc[p] = "planned"
    /\ UNCHANGED otherVars
    /\ args[p].cmd = "plan"
    /\ dumps' = IF args[p].json THEN dumps \cup {plan[p].ts} ELSE dumps
    /\ Goto(p, "release")
    /\ UNCHANGED << clock, files, dirs, gitignore, lock, lockTmp, context,
                    backups, reports, gitVars, hostVars, active, runs,
                    localVars >>


\* apply_plan(): the version-control gate before the loop.  onAbort is the
\* position reached when assert_git_safety calls sys.exit(2).
GitGate(p, onAbort) ==
    /\ pc[p] = "planned"
    /\ UNCHANGED otherVars
    /\ args[p].cmd = "apply"
    /\ LET g == IF args[p].no_branch THEN "none"
                ELSE GitSafety(inRepo, dirty, args[p].allow_dirty,
                               args[p].auto_branch)
           new_branch == <<"agents-sync/", clock>>
       IN
       CASE g = "none" ->
              /\ Goto(p, "loop")
              /\ UNCHANGED << branch, outcome, curBranch, branches >>
         [] g = "current" ->
              /\ branch' = [branch EXCEPT ![p] = curBranch]
              /\ Goto(p, "loop")
              /\ UNCHANGED << outcome, curBranch, branches >>
         [] g = "abort" ->
              /\ Ends(p, "git")
              /\ Goto(p, onAbort)
              /\ UNCHANGED << branch, curBranch, branches >>
         [] g = "branch" ->
              \* git checkout -b fails when the name is taken, and may fail
              \* for reasons outside the model
              \E ok \in (IF new_branch \in branches THEN {FALSE} ELSE BOOLEAN) :
                 IF ok
                 THEN /\ branches' = branches \cup {new_branch}
                      /\ curBranch' = new_branch
                      /\ branch' = [branch EXCEPT ![p] = new_branch]
                      /\ Goto(p, "loop")
                      /\ UNCHANGED outcome
                 ELSE /\ Ends(p, "git")
                      /\ Goto(p, onAbort)
                      /\ UNCHANGED << branch, curBranch, branches >>
    /\ UNCHANGED << clock, fsVars, inRepo, dirty, hostVars, active, runs, started,
                    args, runId, pre, holds, plan, idx, backup_manifest,
                    change_manifest >>

\* a gate that reports the violation and goes on with the apply
ApplyGitSafetyNoExit(p) == GitGate(p, "loop")

ApplyGitSafety(p) == GitGate(p, "release")

\* backup_file(src, backup_root): the copy, or nothing when src is no file
backup_file(src, root) ==
    IF files[src].kind = "file"
    THEN [backups EXCEPT ![root][src] = files[src]]
    ELSE backups

\* an apply that backs up the file of a keep before it lists it
ApplyBackupAlsoOfKeep(p) ==
    /\ pc[p] = "loop"
    /\ UNCHANGED otherVars
    /\ idx[p] <= Len(plan[p].artifacts)
    /\ LET art == plan[p].artifacts[idx[p]]
           entry == [path |-> art.path,
                     backup |-> files[art.path].kind = "file"]
       IN
       CASE art.decision = "keep" ->
              /\ backups' = backup_file(art.path, plan[p].ts)
              /\ change_manifest' = [change_manifest EXCEPT ![p] =
                    Append(@, [path |-> art.path, decision |-> "keep"])]
              /\ idx' = [idx EXCEPT ![p] = @ + 1]
              /\ UNCHANGED << pc, backup_manifest >>
         [] art.decision = "remove" \/ files[art.path].kind # "absent" ->
              /\ backups' = backup_file(art.path, plan[p].ts)
              /\ backup_manifest' = [backup_manifest EXCEPT ![p] =
                    Append(@, entry)]
              /\ Goto(p, "mutate")
              /\ UNCHANGED << idx, change_manifest >>
         [] OTHER ->
              /\ Goto(p, "mutate")
              /\ UNCHANGED << idx, change_manifest, backups, backup_manifest >>
    /\ UNCHANGED << clock, files, dirs, gitignore, lock, lockTmp, context,
                    reports, dumps, gitVars, hostVars, active, runs, started, args,
                    runId, pre, holds, plan, branch, outcome >>

\* apply_plan(): the first half of one round of the loop: a keep is only
\* listed; a remove, or a create/modify of an existing path, is backed up
ApplyBackup(p) ==
    /\ pc[p] = "loop"
    /\ UNCHANGED otherVars
    /\ idx[p] <= Len(plan[p].artifacts)
    /\ LET art == plan[p].artifacts[idx[p]]
           entry == [path |-> art.path,
                     backup |-> files[art.path].kind = "file"]
       IN
       CASE art.decision = "keep" ->
              /\ change_manifest' = [change_manifest EXCEPT ![p] =
                    Append(@, [path |-> art.path, decision |-> "keep"])]
              /\ idx' = [idx EXCEPT ![p] = @ + 1]
              /\ UNCHANGED << pc, backups, backup_manifest >>
         [] art.decision = "remove" \/ files[art.path].kind # "absent" ->
              /\ backups' = backup_file(art.path, plan[p].ts)
              /\ backup_manifest' = [backup_manifest EXCEPT ![p] =
                    Append(@, entry)]
              /\ Goto(p, "mutate")
              /\ UNCHANGED << idx, change_manifest >>
         [] OTHER ->
              /\ Goto(p, "mutate")
              /\ UNCHANGED << idx, change_manifest, backups, backup_manifest >>
    /\ UNCHANGED << clock, files, dirs, gitignore, lock, lockTmp, context,
                    reports, dumps, gitVars, hostVars, active, runs, started, args,
                    runId, pre, holds, plan, branch, outcome >>

\* the content apply_plan writes: the marker is put first when it is absent
ContentToWrite(suggested) ==
    IF HasMarker(suggested) THEN suggested ELSE <<MANAGED_HEADER>> \o suggested

\* apply_plan(): the second half of one round: unlink, or atomic_write of the
\* synthesized content; both raise on a directory
ApplyMutate(p) ==
    /\ pc[p] = "mutate"
    /\ UNCHANGED otherVars
    /\ LET art == plan[p].artifacts[idx[p]]
       IN
       IF files[art.path].kind = "dir"
       THEN /\ Ends(p, "error")
            /\ Goto(p, "release")
            /\ UNCHANGED << files, dirty, idx, change_manifest >>
       ELSE /\ files' = [files EXCEPT ![art.path] =
                    IF art.decision = "remove" THEN Absent
                    ELSE File(ContentToWrite(art.suggested))]
            /\ dirty' = (dirty \/ (inRepo /\ files'[art.path] # files[art.path]))
            /\ change_manifest' = [change_manifest EXCEPT ![p] =
                    Append(@, [path |-> art.path, decision |-> art.decision])]
            /\ idx' = [idx EXCEPT ![p] = @ + 1]
            /\ Goto(p, "loop")
            /\ UNCHANGED outcome
    /\ UNCHANGED << clock, dirs, gitignore, lock, lockTmp, context, backups,
                    reports, dumps, inRepo, curBranch, branches, hostVars,
                    active, runs, started, args, runId, pre, holds, plan, branch,
                    backup_manifest >>

\* apply_plan(): the report, after the loop
WriteReport(p) ==
    /\ pc[p] = "loop"
    /\ UNCHANGED otherVars
    /\ idx[p] > Len(plan[p].artifacts)
    /\ reports' = [reports EXCEPT ![plan[p].ts] =
            [exists |-> TRUE, run |-> runId[p], branch |-> branch[p],
             changes |-> change_manifest[p], backups |-> backup_manifest[p],
             notes |-> plan[p].notes]]
    /\ Goto(p, "commit")
    /\ UNCHANGED << clock, files, dirs, gitignore, lock, lockTmp, context,
                    backups, dumps, gitVars, hostVars, active, runs,
                    localVars >>

\* apply_plan(): git add --all and git commit in a work tree; the commit
\* may fail
Commit(p) ==
    /\ pc[p] = "commit"
    /\ UNCHANGED otherVars
    /\ IF inRepo
       THEN \E ok \in BOOLEAN : dirty' = (dirty /\ ~ok)
       ELSE UNCHANGED dirty
    /\ Goto(p, "release")
    /\ UNCHANGED << clock, fsVars, inRepo, curBranch, branches, hostVars,
                    active, runs, localVars >>

\* main(): finally: release_lock(), then the process ends; marker is what
\* is at .agents/.lock afterwards
ReleaseWith(p, marker) ==
    /\ pc[p] = "release"
    /\ UNCHANGED otherVars
    /\ lock' = marker
    /\ Ends(p, IF outcome[p] = "running" THEN "ok" ELSE outcome[p])
    /\ Goto(p, "done")
    /\ UNCHANGED << clock, files, dirs, gitignore, lockTmp, context, backups,
                    reports, dumps, gitVars, hostVars, active, runs, started, args,
                    runId, pre, holds, plan, idx, branch, backup_manifest,
                    change_manifest >>

\* a release that leaves the marker in place
ReleaseKeepsMarker(p) == ReleaseWith(p, lock)

Release(p) == ReleaseWith(p, NoLock)

\* the process is killed: no handler runs, and its memory is gone (the
\* timestamp of its plan is kept, to name its backup root)
Crash(p) ==
    /\ pc[p] \notin {"idle", "done", "crashed"}
    /\ UNCHANGED otherVars
    /\ Ends(p, "crashed")
    /\ Goto(p, "crashed")
    /\ args' = [args EXCEPT ![p] = NoArgs]
    /\ plan' = [plan EXCEPT ![p] = [NoPlan EXCEPT !.ts = plan[p].ts]]
    /\ idx' = [idx EXCEPT ![p] = 1]
    /\ branch' = [branch EXCEPT ![p] = NoBranch]
    /\ backup_manifest' = [backup_manifest EXCEPT ![p] = <<>>]
    /\ change_manifest' = [change_manifest EXCEPT ![p] = <<>>]
    /\ UNCHANGED << clock, fsVars, gitVars, hostVars, active, runs, started,
                    runId, pre, holds >>

\* the positions whose next step calls now_ts() or time.strftime()
ClockReaders == {"lock_tmp", "plan", "planned", "refresh", "ensure"}

\* a second passes; the clock is seen only where it is read, so seconds are
\* let pass there
Tick ==
    /\ clock < MaxClock
    /\ \/ \E p \in Procs : pc[p] \in ClockReaders
       \/ scanPc \in ClockReaders
    /\ clock' = clock + 1
    /\ UNCHANGED << fsVars, gitVars, hostVars, active, runs, pc, localVars,
                    otherVars >>

\* the steps of an invocation after its start
Step(p) ==
          \/ Layout(p)
          \/ CheckLocked(p)
          \/ AcquireCheck(p)
          \/ AcquireWriteTmp(p)
          \/ AcquireReplace(p)
          \/ BuildPlan(p)
          \/ PlanCmd(p)
          \/ ApplyGitSafety(p)
          \/ ApplyBackup(p)
          \/ ApplyMutate(p)
          \/ WriteReport(p)
          \/ Commit(p)
          \/ Release(p)
          \/ Crash(p)

Next ==
    \/ \E p \in Procs : Start(p) \/ Step(p)
    \/ Tick

NextLock ==
    \/ \E p \in Procs : StartLock(p) \/ Step(p)
    \/ Tick

Spec == Init /\ [][Next]_vars

SpecLock == InitLock /\ [][NextLock]_vars

(***************************************************************************)
(* agents_sync.py: apply_plan() on a plan it is handed.                    *)
(***************************************************************************)
\* the plans apply_plan is called with: one or two artifacts over two
\* paths, with every decision an Artifact can carry
ApplyPlans(fs) ==
    LET arts == {[ManagedArtifact(rel, fs, {}, 0) EXCEPT !.decision = d] :
                    rel \in {GUIDE, NOTES},
                    d \in {"keep", "create", "modify"}}
                \cup {RemoveArtifact(rel, fs) : rel \in {GUIDE, NOTES}}
    IN  {[ts |-> 0, artifacts |-> s, notes |-> <<>>] :
            s \in {<<a>> : a \in arts} \cup (arts \X arts)}

\* invocation A holds the lock and is about to call apply_plan(plan, ...)
InitApply ==
    /\ InitFs(InitTrees, { << <<>>, <<>> >> },
              { <<LayoutDirs, TRUE, LockMarker(0, "A"), r, FALSE>> :
                   r \in BOOLEAN })
    /\ active = {"A"}
    /\ runs = 1
    /\ started = [p \in Procs |-> IF p = "A" THEN 1 ELSE 0]
    /\ pc = [p \in Procs |-> IF p = "A" THEN "planned" ELSE "idle"]
    /\ \E a \in {x \in ArgChoices : x.cmd = "apply" /\ ~x.allow_dirty} :
          args = [p \in Procs |-> IF p = "A" THEN a ELSE NoArgs]
    /\ runId = [p \in Procs |-> IF p = "A" THEN 1 ELSE 0]
    /\ pre = [p \in Procs |-> Snapshot]
    /\ holds = [p \in Procs |-> p = "A"]
    /\ \E pl \in ApplyPlans(files) :
          plan = [p \in Procs |-> IF p = "A" THEN pl ELSE NoPlan]
    /\ idx = [p \in Procs |-> 1]
    /\ branch = [p \in Procs |-> NoBranch]
    /\ backup_manifest = [p \in Procs |-> <<>>]
    /\ change_manifest = [p \in Procs |-> <<>>]
    /\ outcome = [p \in Procs |-> IF p = "A" THEN "running" ELSE "none"]
    /\ InitNoScan
    /\ InitNoWrite
    /\ InitNoVal

NextApply ==
    \/ ApplyGitSafety("A")
    \/ ApplyBackup("A")
    \/ ApplyMutate("A")
    \/ WriteReport("A")
    \/ Commit("A")
    \/ Release("A")

SpecApply == InitApply /\ [][NextApply]_vars

(***************************************************************************)
(* agent_scan.py: the steps of main().                                     *)
(***************************************************************************)
scanEnv == << codeDirs, srcDirs, docsOnDisk, schemasOnDisk, priorities >>

\* what a run of agent_scan.py never touches
scanFrame == << files, gitignore, lock, lockTmp, context, backups, reports,
                dumps, gitVars, hostVars, active, runs, pc, localVars,
                writeVars, valVars >>

ScanEnds(o) == scanPc' = "done" /\ scanOutcome' = o

\* the parse of the command line
ScanStart ==
    /\ scanPc \in {"idle", "done"}
    /\ UNCHANGED scanFrame
    /\ scans < MaxScans
    /\ scans' = scans + 1
    /\ \E r \in BOOLEAN, v \in BOOLEAN :
          scanArgs' = [refresh_index |-> r, validate |-> v]
    /\ scanPre' = [index |-> indexFile, tasks |-> taskFiles]
    /\ afterRefresh' = /\ scanPc = "done"
                       /\ scanArgs.refresh_index
                       /\ scanOutcome = "ok"
    /\ scanPc' = "layout"
    /\ scanOutcome' = "running"
    /\ UNCHANGED << clock, dirs, scanEnv, indexFile, taskFiles >>

ScanLayout ==
    /\ scanPc = "layout"
    /\ UNCHANGED scanFrame
    /\ dirs' = dirs \cup {".agents", ".agents/modules", ".agents/ledger",
                          ".agents/alerts", ".agents/snapshots"}
    /\ scanPc' = "schemas"
    /\ UNCHANGED << clock, scanEnv, indexFile, taskFiles, scans, scanArgs,
                    scanPre, afterRefresh, scanOutcome >>

ScanSchemas ==
    /\ scanPc = "schemas"
    /\ UNCHANGED scanFrame
    /\ IF ~schemasOnDisk THEN ScanEnds("die")
       ELSE IF scanArgs.refresh_index
            THEN scanPc' = "refresh" /\ UNCHANGED scanOutcome
       ELSE IF scanArgs.validate
            THEN scanPc' = "validate" /\ UNCHANGED scanOutcome
       ELSE ScanEnds("ok")
    /\ UNCHANGED << clock, dirs, scanEnv, indexFile, taskFiles, scans,
                    scanArgs, scanPre, afterRefresh >>

\* load the existing index, build the new one and write it
ScanRefresh ==
    /\ scanPc = "refresh"
    /\ UNCHANGED scanFrame
    /\ IF indexFile.kind = "malformed"
       THEN ScanEnds("die") /\ UNCHANGED indexFile
       ELSE /\ indexFile' =
                  write_json(indexFile,
                             build_index(indexFile, codeDirs, srcDirs,
                                         taskFiles, clock))
            /\ scanPc' = "ensure"
            /\ UNCHANGED scanOutcome
    /\ UNCHANGED << clock, dirs, scanEnv, taskFiles, scans, scanArgs,
                    scanPre, afterRefresh >>

ScanEnsure ==
    /\ scanPc = "ensure"
    /\ UNCHANGED scanFrame
    /\ taskFiles' = ensure_task_files(indexFile.modules, taskFiles, clock)
    /\ scanPc' = "validate"
    /\ UNCHANGED << clock, dirs, scanEnv, indexFile, scans, scanArgs,
                    scanPre, afterRefresh, scanOutcome >>

ScanValidate ==
    /\ scanPc = "validate"
    /\ UNCHANGED scanFrame
    /\ IF validate_all(indexFile, taskFiles, docsOnDisk, priorities)
       THEN ScanEnds("ok")
       ELSE ScanEnds("die")
    /\ UNCHANGED << clock, dirs, scanEnv, indexFile, taskFiles, scans,
                    scanArgs, scanPre, afterRefresh >>

InitScan ==
    /\ InitFs({[q \in Paths |-> Absent]}, { << <<>>, <<>> >> },
              { <<{}, FALSE, NoLock, FALSE, FALSE>> })
    /\ active = {}
    /\ InitProcs
    /\ codeDirs \in InitCodeDirs
    /\ srcDirs \in {{}, {"bar"}}
    /\ docsOnDisk \in BOOLEAN
    /\ schemasOnDisk \in BOOLEAN
    /\ indexFile \in InitIndexes
    /\ taskFiles \in InitTaskFiles
    /\ priorities \in InitPriorities
    /\ ScanIdle
    /\ InitNoWrite
    /\ InitNoVal

NextScan ==
    \/ ScanStart
    \/ ScanLayout
    \/ ScanSchemas
    \/ ScanRefresh
    \/ ScanEnsure
    \/ ScanValidate
    \/ Tick

SpecScan == InitScan /\ [][NextScan]_vars

(***************************************************************************)
(* atomic_write() and write_json(): the steps of a call, and a reader.     *)
(***************************************************************************)
writeFrame == << syncVars, scanVars, valVars >>

\* the contents kept: those of the inodes that have a name or an open handle
Reclaim(contents, named, handles) ==
    [i \in Inodes |->
        IF i \in named \/ \E w \in Procs : handles[w] = i
        THEN contents[i] ELSE <<>>]

\* a process calls atomic_write(path, data) or write_json(path, obj)
WStart(w) ==
    /\ wPc[w] = "idle"
    /\ wCalls[w] < MaxWrites
    /\ wCalls' = [wCalls EXCEPT ![w] = @ + 1]
    /\ \E kind \in {"atomic_write", "write_json"}, data \in NewPayloads :
          /\ wKind' = [wKind EXCEPT ![w] = kind]
          /\ wData' = [wData EXCEPT ![w] = data]
          /\ wPc' = [wPc EXCEPT ![w] =
                        IF kind = "write_json" THEN "compare" ELSE "open"]
    /\ UNCHANGED << inodes, targetName, tmpName, wFd, wOff, readerSaw,
                    writeFrame >>

\* write_json: an equal payload is left alone
WCompare(w) ==
    /\ wPc[w] = "compare"
    /\ wPc' = [wPc EXCEPT ![w] =
                  IF targetName # 0 /\ inodes[targetName] = Payload(wData[w])
                  THEN "idle" ELSE "open"]
    /\ UNCHANGED << inodes, targetName, tmpName, wKind, wData, wFd, wOff,
                    wCalls, readerSaw, writeFrame >>

\* open(tmp, "w") / tmp.write_text: the file is created, or truncated when
\* the name exists
WOpen(w) ==
    /\ wPc[w] = "open"
    /\ LET used == {targetName, tmpName} \cup {wFd[v] : v \in Procs}
           fresh == CHOOSE i \in Inodes \ used :
                       \A j \in Inodes \ used : i <= j
           ino == IF tmpName = 0 THEN fresh ELSE tmpName
       IN  /\ tmpName' = ino
           /\ wFd' = [wFd EXCEPT ![w] = ino]
           /\ inodes' = [inodes EXCEPT ![ino] = <<>>]
    /\ wOff' = [wOff EXCEPT ![w] = 0]
    /\ wPc' = [wPc EXCEPT ![w] = "write"]
    /\ UNCHANGED << targetName, wKind, wData, wCalls, readerSaw,
                    writeFrame >>

\* the next part of the payload reaches the file through the handle; the
\* handle is closed after the last one
WWrite(w) ==
    /\ wPc[w] = "write"
    /\ LET k == wOff[w] + 1
           last == k = MaxChunks
           handles == [wFd EXCEPT ![w] = IF last THEN 0 ELSE @]
       IN  /\ wOff' = [wOff EXCEPT ![w] = k]
           /\ wFd' = handles
           /\ inodes' = Reclaim([inodes EXCEPT ![wFd[w]] =
                                    WriteAt(@, k, Chunk(wData[w], k))],
                                {targetName, tmpName}, handles)
           /\ wPc' = [wPc EXCEPT ![w] = IF last THEN "replace" ELSE "write"]
    /\ UNCHANGED << targetName, tmpName, wKind, wData, wCalls, readerSaw,
                    writeFrame >>

\* os.replace(tmp, path) / tmp.replace(path): FileNotFoundError when the
\* name is gone
WReplace(w) ==
    /\ wPc[w] = "replace"
    /\ IF tmpName = 0
       THEN /\ wPc' = [wPc EXCEPT ![w] = "failed"]
            /\ UNCHANGED << inodes, targetName, tmpName >>
       ELSE /\ targetName' = tmpName
            /\ tmpName' = 0
            /\ inodes' = Reclaim(inodes, {tmpName}, wFd)
            /\ wPc' = [wPc EXCEPT ![w] = "idle"]
    /\ UNCHANGED << wKind, wData, wFd, wOff, wCalls, readerSaw, writeFrame >>

\* another process reads the target path
Read ==
    /\ targetName # 0
    /\ readerSaw # inodes[targetName]
    /\ readerSaw' = inodes[targetName]
    /\ UNCHANGED << inodes, targetName, tmpName, wPc, wKind, wData, wFd,
                    wOff, wCalls, writeFrame >>

InitWrite ==
    /\ InitFs({[q \in Paths |-> Absent]}, { << <<>>, <<>> >> },
              { <<{}, FALSE, NoLock, FALSE, FALSE>> })
    /\ active = {}
    /\ InitProcs
    /\ InitNoScan
    /\ InitNoVal
    /\ targetName = 1
    /\ \E name \in {"old", "new1"} :
          inodes = [i \in Inodes |-> IF i = 1 THEN Payload(name) ELSE <<>>]
    /\ WritersIdle

NextWrite ==
    \/ \E w \in Procs : \/ WStart(w)
                        \/ WCompare(w)
                        \/ WOpen(w)
                        \/ WWrite(w)
                        \/ WReplace(w)
    \/ Read

SpecWrite == InitWrite /\ [][NextWrite]_vars

(***************************************************************************)
(* _validate(): one call on a value and a schema.                          *)
(***************************************************************************)
Validate ==
    /\ vResult = "none"
    /\ vResult' = IF _validate(vInstance, vSchema) THEN "ok" ELSE "error"
    /\ UNCHANGED << vInstance, vSchema, syncVars, scanVars, writeVars >>

InitValidate ==
    /\ InitFs({[q \in Paths |-> Absent]}, { << <<>>, <<>> >> },
              { <<{}, FALSE, NoLock, FALSE, FALSE>> })
    /\ active = {}
    /\ InitProcs
    /\ InitNoScan
    /\ InitNoWrite
    /\ vInstance \in Instances
    /\ vSchema \in Schemas
    /\ vResult = "none"

NextValidate == Validate

SpecValidate == InitValidate /\ [][NextValidate]_vars



(***************************************************************************)
(* Claims about agents_sync.py.                                            *)
(***************************************************************************)
\* between the return of acquire_lock() and the end of release_lock()
InCritical(p) ==
    pc[p] \in {"plan", "planned", "loop", "mutate", "commit", "release"}

\* C1: of two concurrent invocations at most one is inside the critical
\* section (building or applying a plan), whatever the interleaving of
\* their lock checks and lock-marker writes.
C1_MutualExclusion ==
    \A p \in Procs : \A q \in Procs \ {p} : ~(InCritical(p) /\ InCritical(q))

\* C2: an invocation that acquired the lock has removed the lock marker
\* when it has terminated, whichever way it left the critical section.
C2_LockReleasedOnExit ==
    \A p \in Procs : (pc[p] = "done" /\ holds[p]) => ~lock.exists

\* C2 witness: an apply that acquired the lock has terminated on a failure
\* to create the isolation branch.
C2_Witness ==
    \E p \in Procs :
        /\ pc[p] = "done" /\ holds[p]
        /\ outcome[p] = "git" /\ args[p].auto_branch

\* C3: an invocation started while the lock marker exists ends with the
\* lock-contention diagnostic, and the filesystem is then as it was when
\* the invocation started.
C3_LockedRunChangesNothing ==
    \A p \in Procs :
        (pc[p] = "done" /\ pre[p].lock.exists) =>
            /\ outcome[p] \in {"lock_main", "lock_acquire"}
            /\ Snapshot = pre[p]

\* C4: an apply in a work tree that is dirty when the safety gate is
\* reached, with neither --allow-dirty nor --auto-branch, leaves the gate
\* only by aborting with the version-control safety violation, whatever
\* the other flags are.
C4_DirtyApplyAborts ==
    [][\A p \in Procs :
          ( /\ pc[p] = "planned" /\ args[p].cmd = "apply"
            /\ inRepo /\ dirty
            /\ ~args[p].allow_dirty /\ ~args[p].auto_branch
            /\ pc'[p] \notin {"planned", "crashed"} )
          => (pc'[p] = "release" /\ outcome'[p] = "git" /\ files' = files)
      ]_vars

\* C5: when an apply has ended with a version-control safety violation, no
\* artifact has been replaced or deleted and no backup or report has been
\* written by it.
C5_ViolationBeforeMutation ==
    \A p \in Procs :
        outcome[p] = "git" =>
            /\ files = pre[p].files
            /\ backups = pre[p].backups
            /\ reports = pre[p].reports

\* C5 witness: an apply whose plan had something to change has ended with
\* the violation.
C5_Witness ==
    \E p \in Procs :
        /\ pc[p] = "done" /\ outcome[p] = "git"
        /\ \E i \in DOMAIN plan[p].artifacts :
              plan[p].artifacts[i].decision \in {"create", "modify", "remove"}

\* C6: at every point during and after an apply, a crash included, every
\* file that existed before the apply and has been replaced or deleted by
\* it has a copy in the backup root equal to its content before the apply.
C6_BackupHoldsOriginal ==
    \A p \in Procs :
        pc[p] # "idle" =>
            \A q \in Paths :
                (pre[p].files[q].kind = "file" /\ files[q] # pre[p].files[q])
                => backups[plan[p].ts][q] = pre[p].files[q]

Unlisted(q, managed) == q \notin Range(managed) /\ q \notin Range(hostRemove)

\* C7 as stated: a file that is neither in the managed-artifact declaration
\* nor in the removal directive exists with unchanged content during and
\* after a plan or an apply.
C7_UndeclaredUntouched ==
    \A p \in Procs : \A q \in Paths :
        Unlisted(q, hostManaged) => files[q] = pre[p].files[q]

\* C7 amended: a file is deleted only if the removal directive lists it,
\* and a file that is neither among the managed paths in effect (the
\* declaration, or the default set when nothing is declared) nor in the
\* removal directive exists with unchanged content.
C7_UnmanagedUntouched ==
    \A p \in Procs : \A q \in Paths :
        /\ (pre[p].files[q].kind = "file" /\ files[q].kind = "absent")
              => q \in Range(hostRemove)
        /\ Unlisted(q, EffectiveManaged(hostManaged))
              => files[q] = pre[p].files[q]

\* C7 witness: an apply has completed and changed the tree, and a file
\* that is listed nowhere is in the tree.
C7_Witness ==
    \E p \in Procs :
        /\ pc[p] = "done" /\ outcome[p] = "ok" /\ args[p].cmd = "apply"
        /\ files # pre[p].files
        /\ \E q \in Paths :
              /\ Unlisted(q, EffectiveManaged(hostManaged))
              /\ files[q].kind = "file"

\* C8: an existing artifact whose content is the provenance-marked body the
\* tool itself synthesized for it (what an apply has just written) is
\* planned as keep.
C8_SynthesizedIsKept ==
    \A p \in Procs :
        pc[p] = "planned" =>
            \A i \in DOMAIN plan[p].artifacts :
                LET a == plan[p].artifacts[i]
                IN  (a.decision # "remove"
                     /\ a.current = File(FreshDoc(a.path)))
                    => a.decision = "keep"

(***************************************************************************)
(* Claims about agent_scan.py.                                             *)
(***************************************************************************)
\* C9: when a refresh that exited 0 is followed, with nothing else touching
\* the filesystem, by a second refresh that exits 0, the index file after
\* the second run is the one the first run left, generated_at included.
C9_RefreshIdempotent ==
    ( /\ scanPc = "done"
      /\ scanArgs.refresh_index
      /\ scanOutcome = "ok"
      /\ afterRefresh )
        => indexFile = scanPre.index

\* C10: a run that ends in a validation failure has written no
\* control-plane file: the index file and every task file are as they were
\* when the run started.
C10_FailureWritesNothing ==
    (scanPc = "done" /\ scanOutcome = "die")
        => /\ indexFile = scanPre.index
           /\ taskFiles = scanPre.tasks

\* the task files the index refers to that hold a task id
FilesHolding(id) ==
    {indexFile.modules[i].tasks_file : i \in
        {j \in DOMAIN indexFile.modules :
            id \in Range(taskFiles[indexFile.modules[j].tasks_file].tasks)}}

\* C11: on a well-formed fixture, validation succeeds if and only if every
\* task file declares the module of its index entry and every queued
\* task_id appears in exactly one task file (the one its entry names, when
\* it names one).
C11_CrossReferenceIff ==
    (/\ scanPc = "done" /\ (scanArgs.validate \/ scanArgs.refresh_index)
     \* the fixture is well formed: the index, every task file it refers
     \* to, the documents and the priorities file are there and parse
     /\ schemasOnDisk
     /\ indexFile.kind = "ok"
     /\ \A i \in DOMAIN indexFile.modules :
           taskFiles[indexFile.modules[i].tasks_file].kind = "ok"
     /\ docsOnDisk
     /\ priorities.kind = "ok")
        => ( scanOutcome = "ok"
             <=> /\ \A i \in DOMAIN indexFile.modules :
                       taskFiles[indexFile.modules[i].tasks_file].module
                           = indexFile.modules[i].name
                 /\ \A k \in DOMAIN priorities.queue :
                       LET entry == priorities.queue[k]
                       IN  /\ Cardinality(FilesHolding(entry.task_id)) = 1
                           /\ entry.file # ""
                                 => entry.file
                                       \in FilesHolding(entry.task_id) )

\* exit status of agent_scan.py: die() exits 1
ScanExitCode(o) == IF o = "die" THEN 1 ELSE 0

\* C12: every termination caused by a lock that is already held uses one
\* exit code, which is nonzero and is neither the code of a version-control
\* safety violation nor the code of a validation failure.
C12_LockExitCode ==
    \A p \in Procs : \A q \in Procs :
        (outcome[p] \in {"lock_main", "lock_acquire"}
         /\ outcome[q] \in {"lock_main", "lock_acquire"})
            => /\ ExitCode(outcome[p]) = ExitCode(outcome[q])
               /\ ExitCode(outcome[p]) # 0
               /\ ExitCode(outcome[p]) # ExitCode("git")
               /\ ExitCode(outcome[p]) # ScanExitCode("die")

\* C13: a report is immutable once written: no step changes or replaces a
\* report file that exists, whatever the second the clock shows when a later
\* apply builds its plan.
C13_ReportImmutable ==
    [][\A t \in Ts : reports[t].exists => reports'[t] = reports[t]]_vars

\* C14: an apply in a repository with automatic branching requested and
\* branching not disabled is, whenever it mutates artifacts, on a branch it
\* has just created (dirty or clean tree, with or without --allow-dirty),
\* and its report records that branch.
C14_AutoBranchAlways ==
    \A p \in Procs :
        (args[p].cmd = "apply" /\ args[p].auto_branch /\ ~args[p].no_branch
         /\ inRepo /\ pc[p] \in {"loop", "mutate", "commit"})
            => /\ branch[p] \in branches
               /\ curBranch = branch[p]
               /\ pc[p] = "commit"
                     => reports[plan[p].ts].branch = branch[p]

(***************************************************************************)
(* Claims about the writes and the validator.                              *)
(***************************************************************************)
\* C15: while control-plane files and managed artifacts are written (to the
\* ".tmp" sibling, then renamed over the target), a reader of the target
\* path gets the whole previous content or the whole new content, never a
\* partly written file.
C15_ReaderSeesWholeFile == readerSaw \in Complete \cup {NotRead}

\* C16: a boolean is a kind of its own: a constraint of type integer
\* rejects every boolean, and a value that is a boolean passes a type
\* constraint only if boolean is one of its candidate kinds.
C16_BooleanDistinct ==
    (vResult # "none" /\ IsBool(vInstance) /\ vSchema.type # <<>>)
        => /\ vSchema.type = << "integer" >> => vResult = "error"
           /\ vResult = "ok" => "boolean" \in Range(vSchema.type)

\* the positions of the items of an object whose name the schema declares,
\* or does not declare
DeclaredItems(instance, schema) ==
    {i \in DOMAIN instance.fields :
        instance.fields[i].k \in Keys(schema.properties)}
UndeclaredItems(instance, schema) ==
    DOMAIN instance.fields \ DeclaredItems(instance, schema)

\* C17: for a node whose effective type is object, validation succeeds
\* exactly when the required names are present, every declared property
\* satisfies its own sub-constraint, and every undeclared property is
\* handled by additionalProperties: it satisfies additionalProperties when
\* that is a constraint, there is none when it is false, and it is accepted
\* unchecked when it is true or absent (an enum on the node applies as
\* well).
C17_AdditionalPolicy ==
    (vResult # "none" /\ EffectiveType(vInstance, vSchema) = "object")
        => ( vResult = "ok"
             <=> /\ \A i \in DOMAIN vSchema.required :
                       vSchema.required[i] \in Keys(vInstance.fields)
                 /\ \A i \in DeclaredItems(vInstance, vSchema) :
                       _validate(vInstance.fields[i].v,
                                 Lookup(vSchema.properties,
                                        vInstance.fields[i].k))
                 /\ vSchema.additional = "schema" =>
                       \A i \in UndeclaredItems(vInstance, vSchema) :
                           _validate(vInstance.fields[i].v,
                                     vSchema.addSchema[1])
                 /\ vSchema.additional = "false" =>
                       UndeclaredItems(vInstance, vSchema) = {}
                 /\ vSchema.hasEnum =>
                       \E i \in DOMAIN vSchema.enum :
                           PyEq(vInstance, vSchema.enum[i]) )

\* C17 witness: an object whose declared properties are all valid was
\* rejected because an undeclared property violates the constraint given as
\* additionalProperties.
C17_Witness ==
    /\ vResult = "error"
    /\ EffectiveType(vInstance, vSchema) = "object"
    /\ vSchema.additional = "schema"
    /\ DeclaredItems(vInstance, vSchema) # {}
    /\ \A i \in DeclaredItems(vInstance, vSchema) :
          _validate(vInstance.fields[i].v,
                    Lookup(vSchema.properties, vInstance.fields[i].k))
    /\ \E i \in UndeclaredItems(vInstance, vSchema) :
          ~_validate(vInstance.fields[i].v, vSchema.addSchema[1])

(***************************************************************************)
(* More claims about agent_scan.py.                                        *)
(***************************************************************************)
\* the run has rebuilt the index
Rebuilt ==
    /\ scanArgs.refresh_index
    /\ schemasOnDisk
    /\ scanPre.index.kind # "malformed"
    /\ scanPc \in {"ensure", "validate", "done"}

\* nothing to discover, no task file and no index when the run started
EmptyRepository ==
    /\ codeDirs = {}
    /\ \A q \in TaskPaths : scanPre.tasks[q].kind = "absent"
    /\ scanPre.index = NoIndex

\* C18: the module list of a rebuilt index is never empty; on an empty
\* repository it is the single module core at src/core, and once the task
\* files are ensured that module has a scaffold task file with no tasks.
C18_EmptyRepoCore ==
    Rebuilt =>
        /\ indexFile.kind = "ok"
        /\ indexFile.modules # <<>>
        /\ EmptyRepository =>
              /\ indexFile.modules =
                     << Module("core", "src/core", TasksFileOf("core")) >>
              /\ scanPc \in {"validate", "done"} =>
                    /\ taskFiles[TasksFileOf("core")].kind = "ok"
                    /\ taskFiles[TasksFileOf("core")].module = "core"
                    /\ taskFiles[TasksFileOf("core")].tasks = <<>>

\* C18 witness: a refresh on an empty repository has ended.
C18_Witness ==
    /\ Rebuilt
    /\ EmptyRepository
    /\ scanPc = "done"
    /\ scanPre.tasks # taskFiles

(***************************************************************************)
(* More claims about agents_sync.py.                                       *)
(***************************************************************************)
\* C19: plan is a dry run: when a plan invocation has ended, every managed
\* path and every path of the removal directive is as it was when the
\* invocation started, and no backup and no apply report has been written.
C19_PlanIsDryRun ==
    \A p \in Procs :
        (pc[p] = "done" /\ args[p].cmd = "plan")
            => /\ \A q \in Range(EffectiveManaged(hostManaged))
                            \cup Range(hostRemove) :
                      files[q] = pre[p].files[q]
               /\ backups = pre[p].backups
               /\ reports = pre[p].reports

\* C19 witness: a plan invocation has ended with exit status 0 after it
\* planned a change of the tree and wrote the context pack.
C19_Witness ==
    \E p \in Procs :
        /\ pc[p] = "done" /\ args[p].cmd = "plan" /\ outcome[p] = "ok"
        /\ context # pre[p].context
        /\ \E i \in DOMAIN plan[p].artifacts :
              plan[p].artifacts[i].decision \in {"create", "modify"}
        /\ \E i \in DOMAIN plan[p].artifacts :
              plan[p].artifacts[i].decision = "remove"

\* C20: the plan holds one decision per managed path, in order, which is
\* create for a missing path, else modify for a path that is not a readable
\* text file, else modify when the hash of the content differs from the
\* hash of the synthesized content, else keep; and a remove decision only
\* for a path of the removal directive that exists as a file.
C20_DecisionPolicy ==
    \A p \in Procs :
        pc[p] = "planned" =>
            LET managed == EffectiveManaged(hostManaged)
                arts == plan[p].artifacts
                DecisionPolicy(current, desired) ==
                    IF current.kind = "absent" THEN "create"
                    ELSE IF current.kind # "file" THEN "modify"
                    ELSE IF sha256_text(current.text) # sha256_text(desired)
                         THEN "modify"
                         ELSE "keep"
            IN  /\ Len(arts) >= Len(managed)
                /\ \A i \in DOMAIN managed :
                      /\ arts[i].path = managed[i]
                      /\ arts[i].decision =
                             DecisionPolicy(files[managed[i]],
                                            arts[i].suggested)
                /\ \A i \in DOMAIN arts :
                      i > Len(managed) => arts[i].decision = "remove"
                /\ \A i \in DOMAIN arts :
                      arts[i].decision = "remove" =>
                          /\ arts[i].path \in Range(hostRemove)
                          /\ files[arts[i].path].kind = "file"

\* C20 witness: a plan with a path that is not a text file, a file whose
\* content differs from the synthesized one, and a removal.
C20_Witness ==
    \E p \in Procs :
        /\ pc[p] = "planned"
        /\ \E i \in DOMAIN plan[p].artifacts :
              /\ plan[p].artifacts[i].decision = "modify"
              /\ files[plan[p].artifacts[i].path].kind = "dir"
        /\ \E i \in DOMAIN plan[p].artifacts :
              /\ plan[p].artifacts[i].decision = "modify"
              /\ files[plan[p].artifacts[i].path].kind = "file"
        /\ \E i \in DOMAIN plan[p].artifacts :
              plan[p].artifacts[i].decision = "remove"

\* C21: after an apply, every artifact the apply created or modified (and
\* did not remove afterwards) is a file whose first line is the provenance
\* marker.
C21_MarkerIsFirstLine ==
    \A p \in Procs :
        (pc[p] = "commit" /\ args[p].cmd = "apply") =>
            \A i \in DOMAIN change_manifest[p] :
                (/\ change_manifest[p][i].decision \in {"create", "modify"}
                 /\ \A j \in DOMAIN change_manifest[p] :
                       (j > i /\ change_manifest[p][j].path
                                    = change_manifest[p][i].path)
                          => change_manifest[p][j].decision # "remove")
                    => /\ files[change_manifest[p][i].path].kind = "file"
                       /\ Head(files[change_manifest[p][i].path].text)
                              = MANAGED_HEADER

(***************************************************************************)
(* Claims about apply_plan().                                              *)
(***************************************************************************)
\* C22: the step of an apply that processes a keep artifact changes no file,
\* directory, backup or backup list; it appends the path with the outcome
\* keep to the list of changes, and the report lists it so.
C22_KeepDoesNoIO ==
    /\ [][\A p \in Procs :
            (/\ pc[p] = "loop"
             /\ idx[p] <= Len(plan[p].artifacts)
             /\ plan[p].artifacts[idx[p]].decision = "keep"
             /\ idx'[p] = idx[p] + 1)
               => /\ UNCHANGED << files, dirs, backups, backup_manifest >>
                  /\ change_manifest'[p] =
                         Append(change_manifest[p],
                                [path |-> plan[p].artifacts[idx[p]].path,
                                 decision |-> "keep"])]_vars
    /\ [](\A p \in Procs :
            (pc[p] = "commit" /\ args[p].cmd = "apply") =>
                \A i \in DOMAIN plan[p].artifacts :
                    plan[p].artifacts[i].decision = "keep"
                        => reports[plan[p].ts].changes[i] =
                               [path |-> plan[p].artifacts[i].path,
                                decision |-> "keep"])

\* C22 witness: an apply has gone through a keep of a file a user wrote and
\* through a modification of another file, and has written its report.
C22_Witness ==
    /\ pc["A"] = "commit"
    /\ \E i \in DOMAIN plan["A"].artifacts :
          /\ plan["A"].artifacts[i].decision = "keep"
          /\ plan["A"].artifacts[i].path = NOTES
          /\ files[NOTES] = File(<<UserBlock>>)
    /\ \E i \in DOMAIN plan["A"].artifacts :
          /\ plan["A"].artifacts[i].decision = "modify"
          /\ plan["A"].artifacts[i].path = GUIDE
    /\ files[GUIDE] # pre["A"].files[GUIDE]

\* C23: in an apply, no report of the run exists while artifacts are being
\* processed; once the loop is over and before the commit, the report lists
\* one outcome per artifact of the plan, in plan order, with the artifact's
\* decision, the branch the apply used, and every backup that was made.
C23_ReportAfterLoop ==
    \A p \in Procs :
        args[p].cmd = "apply" =>
            LET report == reports[plan[p].ts]
                arts == plan[p].artifacts
            IN  /\ pc[p] \in {"planned", "loop", "mutate"}
                      => ~(report.exists /\ report.run = runId[p])
                /\ pc[p] = "commit" =>
                      /\ report.exists /\ report.run = runId[p]
                      /\ Len(report.changes) = Len(arts)
                      /\ \A i \in DOMAIN arts :
                            report.changes[i] =
                                [path |-> arts[i].path,
                                 decision |-> arts[i].decision]
                      /\ report.branch =
                            (IF inRepo THEN curBranch ELSE NoBranch)
                      /\ \A q \in Paths :
                            backups[plan[p].ts][q] # Absent
                               => \E k \in DOMAIN report.backups :
                                     /\ report.backups[k].path = q
                                     /\ report.backups[k].backup

\* C24: a rebuilt index never drops a curated entry: every module named in
\* the index the run found is named in the rebuilt index, and a module that
\* neither the scan of the search roots nor the scan of the task files
\* finds is carried over with its name, path and tasks_file unchanged.
C24_CuratedKept ==
    (Rebuilt /\ scanPc = "ensure" /\ scanPre.index.kind = "ok") =>
        LET old == scanPre.index.modules
            new == indexFile.modules
            firstPass == IF codeDirs = {} THEN {"core"}
                         ELSE {DirName(d) : d \in codeDirs}
            secondPass == {n \in Names :
                              scanPre.tasks[TasksFileOf(n)].kind # "absent"}
        IN  \A i \in DOMAIN old :
                old[i].name # "" =>
                    /\ \E j \in DOMAIN new : new[j].name = old[i].name
                    /\ old[i].name \notin firstPass \cup secondPass
                          => \E j \in DOMAIN new : new[j] = old[i]

\* C24 witness: the index held a module outside the search roots and
\* without a task file; the rebuilt index holds it next to a discovered one.
C24_Witness ==
    /\ Rebuilt /\ scanPc = "ensure" /\ scanPre.index.kind = "ok"
    /\ codeDirs = {}
    /\ scanPre.tasks[TasksFileOf("foo")].kind = "absent"
    /\ \E i \in DOMAIN scanPre.index.modules :
          /\ scanPre.index.modules[i].name = "foo"
          /\ scanPre.index.modules[i].path = "lib/foo"
          /\ \E j \in DOMAIN indexFile.modules :
                indexFile.modules[j] = scanPre.index.modules[i]
    /\ Len(indexFile.modules) > 1

\* C25: every directory of the search roots that holds source files is in
\* the rebuilt index as a module whose path is that directory, and the
\* module list is unique by name and sorted by (path, name).
C25_EveryCodeDirIndexed ==
    (Rebuilt /\ scanPc = "ensure") =>
        LET new == indexFile.modules
        IN  /\ \A d \in codeDirs :
                  \E j \in DOMAIN new :
                      new[j].path = d /\ new[j].name = DirName(d)
            /\ \A i \in DOMAIN new : \A j \in DOMAIN new :
                  new[i].name = new[j].name => i = j
            /\ new = SortModules(Range(new))

\* C26: when validation succeeds, every entry of the priority queue has a
\* task_id of the catalog, and an entry that carries a file reference
\* carries the path of the task file that owns its task_id in the catalog.
C26_QueueResolves ==
    (scanPc = "done" /\ scanOutcome = "ok"
     /\ (scanArgs.validate \/ scanArgs.refresh_index)) =>
        \A k \in DOMAIN priorities.queue :
            LET entry == priorities.queue[k]
                catalog == Catalog(indexFile, taskFiles)
            IN  /\ entry.task_id \in DOMAIN catalog
                /\ entry.file # "" => entry.file = catalog[entry.task_id]

(***************************************************************************)
(* More claims about the lock.                                             *)
(***************************************************************************)
\* C27: an invocation that finds the lock marker present, in main() or in
\* acquire_lock(), ends at once with lock contention; the step leaves the
\* marker and the temporary marker as they are, and the invocation takes
\* no further step towards the lock: it holds nothing and does not retry.
C27_FoundMarkerUntouched ==
    /\ [][\A p \in Procs :
            (pc[p] \in {"check", "acquire"} /\ lock.exists
             /\ pc'[p] # pc[p])
               => /\ lock' = lock
                  /\ lockTmp' = lockTmp
                  /\ \/ pc'[p] = "crashed"
                     \/ /\ pc'[p] = "done"
                        /\ outcome'[p] =
                              (IF pc[p] = "check" THEN "lock_main"
                               ELSE "lock_acquire")]_vars
    /\ [](\A p \in Procs :
            outcome[p] \in {"lock_main", "lock_acquire"}
               => pc[p] = "done" /\ ~holds[p])

\* C27 witness: an invocation has found the marker of a running invocation
\* in acquire_lock() and has ended; the marker is still the owner's.
C27_Witness ==
    \E p \in Procs : \E q \in Procs \ {p} :
        /\ outcome[p] = "lock_acquire"
        /\ pc[p] = "done"
        /\ lock.exists /\ lock.owner = q
        /\ InCritical(q)

\* C28: a plan holds at most one artifact per path, whatever the host
\* document declares, the same path as a managed artifact and in the removal
\* directive included.
C28_OneArtifactPerPath ==
    \A p \in Procs :
        pc[p] = "planned" =>
            \A i \in DOMAIN plan[p].artifacts :
                \A j \in DOMAIN plan[p].artifacts :
                    plan[p].artifacts[i].path = plan[p].artifacts[j].path
                        => i = j

====
